---- MODULE Spec2Model ----
(***************************************************************************)
(* A model of dkb-texture-optimize-pro: the configuration resolver         *)
(* (texture-config.ts), the single-texture pipeline (optimizer.ts) and     *)
(* the batch orchestrator (batch-processor.ts) over a small filesystem.    *)
(*                                                                         *)
(* Strings are TLA+ strings; where the code looks inside a string          *)
(* (path.extname, path.basename, toLowerCase) the string's characters are  *)
(* given by Chars.  A path is a sequence of path components.  A JSON       *)
(* number is kept in tenths (512 is 5120, 50.5 is 505), so that            *)
(* non-integers can be told from integers.                                 *)
(***************************************************************************)
EXTENDS Integers, Sequences, FiniteSets, TLC

VARIABLES
    files,          \* the filesystem's regular files: path -> content
    dirs,           \* the filesystem's directories: a set of paths
    configDoc,      \* the document at options.textureConfigPath
    options,        \* BatchProcessor.options (what the constructor built)
    configManager,  \* BatchProcessor.configManager
    phase,          \* where processAll stands
    rejection,      \* the error processAll's promise rejected with
    found,          \* processAll's local `files`: the discovered paths
    idx,            \* processAll's loop counter i
    results,        \* processAll's local `results`
    pipes,          \* the processTexture calls of the current chunk
    runs,           \* how many runs have been started
    faults,         \* how many I/O faults the environment has injected
    backedUp,       \* history: backup path -> the bytes backupOriginal copied there
    startFiles,     \* history: `files` when the current run started
    startDirs,      \* history: `dirs` when the current run started
    rerun,          \* history: the current run repeats the run before it, which resolved
    lastOptimized,  \* history: the files the run before it optimized, when that run resolved
    kills,          \* how many times the process has been killed
    texturePath,    \* resolver on its own: the path asked for
    settingsOut,    \* resolver on its own: what getSettingsForTexture returned
    customOut,      \* resolver on its own: what hasCustomSettings returned
    cfgPc,          \* resolver on its own: position
    planIn,         \* planner on its own: the settings and the original's size
    planOut,        \* planner on its own: what calculateTargetDimensions returned
    resizeOut       \* planner on its own: the size sharp.resize produced

batchVars == <<files, dirs, options, phase, rejection, found, idx, results, pipes, runs,
               faults, backedUp, startFiles, startDirs, rerun,
               lastOptimized, kills>>
cfgVars == <<texturePath, settingsOut, customOut, cfgPc>>
planVars == <<planIn, planOut, resizeOut>>
vars == <<files, dirs, configDoc, options, configManager, phase, rejection, found, idx,
          results, pipes, runs, faults, backedUp, startFiles, startDirs, rerun, lastOptimized,
          kills, texturePath, settingsOut, customOut, cfgPc, planIn, planOut, resizeOut>>

(***************************************************************************)
(* Values                                                                  *)
(***************************************************************************)
Undef == [t |-> "undefined"]
Null == [t |-> "null"]
Num(tenths) == [t |-> "number", v |-> tenths]
Int10(n) == [t |-> "number", v |-> 10 * n]
Str(s) == [t |-> "string", v |-> s]
Bool(b) == [t |-> "boolean", v |-> b]
NaN == [t |-> "nan"]
Obj(f) == [t |-> "object", v |-> f]
Arr(s) == [t |-> "array", v |-> s]

\* o.k of a JSON object: undefined when the key is absent
Field(o, k) == IF k \in DOMAIN o.v THEN o.v[k] ELSE Undef

Max(a, b) == IF a >= b THEN a ELSE b
Min(a, b) == IF a <= b THEN a ELSE b

(***************************************************************************)
(* Strings: the characters of every string the model uses                  *)
(***************************************************************************)
Chars(s) ==
    CASE s = "Hero.png" -> <<"H", "e", "r", "o", ".", "p", "n", "g">>
      [] s = "hero.jpg" -> <<"h", "e", "r", "o", ".", "j", "p", "g">>
      [] s = "bg.jpeg" -> <<"b", "g", ".", "j", "p", "e", "g">>
      [] s = "icon.png" -> <<"i", "c", "o", "n", ".", "p", "n", "g">>
      [] s = "bg.v2.webp" -> <<"b", "g", ".", "v", "2", ".", "w", "e", "b", "p">>
      [] s = ".png" -> <<".", "p", "n", "g">>
      [] s = "hero" -> <<"h", "e", "r", "o">>
      [] s = "HERO" -> <<"H", "E", "R", "O">>
      [] s = "Hero" -> <<"H", "e", "r", "o">>
      [] s = "bg" -> <<"b", "g">>
      [] s = "bg.v2" -> <<"b", "g", ".", "v", "2">>
      [] s = "base" -> <<"b", "a", "s", "e">>
      [] s = "ui" -> <<"u", "i">>
      [] s = "ui.d" -> <<"u", "i", ".", "d">>
      [] s = "out" -> <<"o", "u", "t">>
      [] s = "_originalTexture" ->
            <<"_", "o", "r", "i", "g", "i", "n", "a", "l", "T", "e", "x", "t", "u", "r", "e">>
      [] s = "png" -> <<"p", "n", "g">>
      [] s = "jpg" -> <<"j", "p", "g">>
      [] s = "jpeg" -> <<"j", "p", "e", "g">>
      [] s = "webp" -> <<"w", "e", "b", "p">>

\* String.prototype.toLowerCase on one character
LowerChar(c) ==
    CASE c = "H" -> "h"
      [] c = "E" -> "e"
      [] c = "R" -> "r"
      [] c = "O" -> "o"
      [] OTHER -> c

ToLowerCase(cs) == [n \in 1..Len(cs) |-> LowerChar(cs[n])]

\* the index of the last "." of cs, 0 when there is none
LastDot(cs) ==
    LET dots == {n \in 1..Len(cs) : cs[n] = "."}
    IN IF dots = {} THEN 0 ELSE CHOOSE n \in dots : \A m \in dots : m <= n

\* path.extname of a path: from the last "." of the last component to its end;
\* empty when there is no "." or the only "." is the first character
ExtName(path) ==
    LET cs == Chars(path[Len(path)])
        d == LastDot(cs)
    IN IF d <= 1 THEN <<>> ELSE SubSeq(cs, d, Len(cs))

\* path.basename(path, ext): the last component with the suffix ext removed
BaseName(path, ext) ==
    LET cs == Chars(path[Len(path)])
        n == Len(cs) - Len(ext)
    IN IF ext # <<>> /\ n >= 1 /\ SubSeq(cs, n + 1, Len(cs)) = ext
       THEN SubSeq(cs, 1, n)
       ELSE cs

\* path.dirname, path.basename (one argument) and path.join on component sequences
DirName(path) == SubSeq(path, 1, Len(path) - 1)
FileName(path) == path[Len(path)]
Join(dir, rest) == dir \o rest

\* whether path lies under dir (dir itself included)
Under(path, dir) == Len(path) >= Len(dir) /\ SubSeq(path, 1, Len(dir)) = dir

(***************************************************************************)
(* texture-config.ts: the zod schemas                                      *)
(***************************************************************************)
MaxSizeLiterals == {32, 64, 128, 256, 512, 1024, 2048, 4096}

\* z.union([z.literal(32), ...]).optional()
MaxSizeFieldOk(v) == v = Undef \/ (v.t = "number" /\ v.v \in {10 * m : m \in MaxSizeLiterals})

QualityFieldOkNoMax(v) == v = Undef \/ (v.t = "number" /\ v.v >= 10)

\* z.number().min(1).max(100).optional()
QualityFieldOk(v) == v = Undef \/ (v.t = "number" /\ v.v >= 10 /\ v.v <= 1000)

textureSettingsSchema(v) ==
    /\ v.t = "object"
    /\ MaxSizeFieldOk(Field(v, "maxSize"))
    /\ QualityFieldOk(Field(v, "quality"))

textureEntrySchema(v) ==
    /\ v.t = "object"
    /\ Field(v, "name").t = "string"
    /\ Field(v, "useDefault").t = "boolean"
    /\ MaxSizeFieldOk(Field(v, "maxSize"))
    /\ QualityFieldOk(Field(v, "quality"))

textureConfigSchema(v) ==
    /\ v.t = "object"
    /\ textureSettingsSchema(Field(v, "defaultSettings"))
    /\ Field(v, "textures").t = "array"
    /\ \A n \in 1..Len(Field(v, "textures").v) : textureEntrySchema(Field(v, "textures").v[n])

\* what zod's parse returns: the known keys only, an absent key read as undefined
ParsedSettings(v) == [maxSize |-> Field(v, "maxSize"), quality |-> Field(v, "quality")]

ParsedEntry(v) ==
    [name |-> Field(v, "name").v, useDefault |-> Field(v, "useDefault").v,
     maxSize |-> Field(v, "maxSize"), quality |-> Field(v, "quality")]

ParsedConfig(v) ==
    [defaultSettings |-> ParsedSettings(Field(v, "defaultSettings")),
     textures |-> [n \in 1..Len(Field(v, "textures").v) |-> ParsedEntry(Field(v, "textures").v[n])]]

(***************************************************************************)
(* texture-config.ts: TextureConfigManager                                 *)
(***************************************************************************)
\* the constructor's loop: textureMap.set(texture.name.toLowerCase(), texture)
RECURSIVE BuildTextureMap(_, _, _)
BuildTextureMapFirstWins(textures, n, map) ==
    IF n > Len(textures) THEN map
    ELSE LET key == ToLowerCase(Chars(textures[n].name))
         IN BuildTextureMap(textures, n + 1,
                IF key \in DOMAIN map THEN map
                ELSE [k \in DOMAIN map \cup {key} |-> IF k = key THEN textures[n] ELSE map[k]])

BuildTextureMap(textures, n, map) ==
    IF n > Len(textures) THEN map
    ELSE LET key == ToLowerCase(Chars(textures[n].name))
         IN BuildTextureMap(textures, n + 1,
                [k \in DOMAIN map \cup {key} |-> IF k = key THEN textures[n] ELSE map[k]])

EmptyMap == [k \in {} |-> Undef]

TextureConfigManager(config) ==
    [ok |-> TRUE, config |-> config, textureMap |-> BuildTextureMap(config.textures, 1, EmptyMap)]

\* loadFromFile: readFile, JSON.parse, schema parse; any failure is rethrown as an Error
LoadFailed(message) == [ok |-> FALSE, error |-> message]

LoadFromFile(doc) ==
    IF doc.file = "missing" THEN LoadFailed("ENOENT")
    ELSE IF doc.file = "garbage" THEN LoadFailed("SyntaxError")
    ELSE IF ~textureConfigSchema(doc.value) THEN LoadFailed("ZodError")
    ELSE TextureConfigManager(ParsedConfig(doc.value))

\* a ?? b
Coalesce(a, b) == IF a = Undef \/ a = Null THEN b ELSE a

GetSettingsNoMerge(mgr, path) ==
    LET normalizedName == ToLowerCase(BaseName(path, ExtName(path)))
    IN IF normalizedName \notin DOMAIN mgr.textureMap THEN mgr.config.defaultSettings
       ELSE LET textureEntry == mgr.textureMap[normalizedName]
            IN [maxSize |-> textureEntry.maxSize, quality |-> textureEntry.quality]

GetSettingsForTexture(mgr, path) ==
    LET normalizedName == ToLowerCase(BaseName(path, ExtName(path)))
    IN IF normalizedName \notin DOMAIN mgr.textureMap THEN mgr.config.defaultSettings
       ELSE LET textureEntry == mgr.textureMap[normalizedName]
            IN IF textureEntry.useDefault THEN mgr.config.defaultSettings
               ELSE [maxSize |-> Coalesce(textureEntry.maxSize, mgr.config.defaultSettings.maxSize),
                     quality |-> Coalesce(textureEntry.quality, mgr.config.defaultSettings.quality)]

HasCustomSettingsNeedsOverride(mgr, path) ==
    LET normalizedName == ToLowerCase(BaseName(path, ExtName(path)))
    IN /\ normalizedName \in DOMAIN mgr.textureMap
       /\ ~mgr.textureMap[normalizedName].useDefault
       /\ \/ mgr.textureMap[normalizedName].maxSize # Undef
          \/ mgr.textureMap[normalizedName].quality # Undef

HasCustomSettings(mgr, path) ==
    LET normalizedName == ToLowerCase(BaseName(path, ExtName(path)))
    IN normalizedName \in DOMAIN mgr.textureMap /\ ~mgr.textureMap[normalizedName].useDefault

GetConfiguredTextures(mgr) == DOMAIN mgr.textureMap

(***************************************************************************)
(* The resolver on its own: a document and a path are drawn, the document *)
(* is loaded and the path resolved                                         *)
(***************************************************************************)
MaxEntries == 2

JsonObject(f) == Obj([k \in {k \in DOMAIN f : f[k] # Undef} |-> f[k]])

SettingsJson(maxSize, quality) == JsonObject([maxSize |-> maxSize, quality |-> quality])

EntryJson(name, useDefault, maxSize, quality) ==
    JsonObject([name |-> name, useDefault |-> useDefault, maxSize |-> maxSize, quality |-> quality])

DefaultSettingsValues ==
    { SettingsJson(Int10(512), Int10(80)), SettingsJson(Int10(32), Int10(1)),
      SettingsJson(Int10(4096), Int10(100)), SettingsJson(Undef, Undef),
      SettingsJson(Int10(512), Undef), SettingsJson(Undef, Int10(80)),
      SettingsJson(Int10(512), Num(505)), SettingsJson(Int10(512), Int10(150)),
      SettingsJson(Int10(512), Num(5)), SettingsJson(Int10(100), Int10(80)),
      SettingsJson(Str("512"), Int10(80)), SettingsJson(Int10(512), Null),
      Undef, Null }

EntryValues ==
    { EntryJson(Str("hero"), Bool(FALSE), Int10(64), Int10(90)),
      EntryJson(Str("HERO"), Bool(FALSE), Undef, Undef),
      EntryJson(Str("hero"), Bool(TRUE), Int10(4096), Int10(90)),
      EntryJson(Str("bg.v2"), Bool(FALSE), Int10(4096), Undef),
      EntryJson(Str("Hero"), Bool(FALSE), Undef, Num(505)),
      EntryJson(Str("bg"), Bool(TRUE), Undef, Undef),
      EntryJson(Int10(7), Bool(FALSE), Undef, Undef),
      EntryJson(Undef, Bool(TRUE), Undef, Undef),
      EntryJson(Str("hero"), Undef, Int10(64), Int10(90)),
      EntryJson(Str("hero"), Str("hero"), Undef, Undef),
      EntryJson(Str("bg"), Bool(FALSE), Int10(100), Undef),
      EntryJson(Str("bg"), Bool(FALSE), Undef, Int10(150)) }

TexturesValues ==
    {Undef, Null} \cup {Arr(s) : s \in UNION {[1..n -> EntryValues] : n \in 0..MaxEntries}}

ConfigDocs ==
    {[file |-> "missing"], [file |-> "garbage"], [file |-> "json", value |-> Null],
     [file |-> "json", value |-> Arr(<<>>)]}
    \cup {[file |-> "json", value |-> JsonObject([defaultSettings |-> d, textures |-> t])] :
            d \in DefaultSettingsValues, t \in TexturesValues}

TexturePaths ==
    { <<"base", "Hero.png">>, <<"base", "ui.d", "hero.jpg">>, <<"base", "bg.v2.webp">>,
      <<"base", ".png">>, <<"base", "bg.jpeg">> }

NoFiles == [p \in {} |-> Undef]

InitConfig ==
    /\ configDoc \in ConfigDocs
    /\ texturePath \in TexturePaths
    /\ cfgPc = "start"
    /\ configManager = Undef
    /\ settingsOut = Undef
    /\ customOut = Undef
    /\ planIn = Undef
    /\ planOut = Undef
    /\ resizeOut = Undef
    /\ files = NoFiles
    /\ dirs = {}
    /\ options = Undef
    /\ phase = "idle"
    /\ rejection = Undef
    /\ found = <<>>
    /\ idx = 0
    /\ results = <<>>
    /\ pipes = <<>>
    /\ runs = 0
    /\ faults = 0
    /\ backedUp = NoFiles
    /\ startFiles = NoFiles
    /\ startDirs = {}
    /\ rerun = FALSE
    /\ lastOptimized = {}
    /\ kills = 0

CfgLoad ==
    /\ cfgPc = "start"
    /\ configManager' = LoadFromFile(configDoc)
    /\ cfgPc' = IF configManager'.ok THEN "loaded" ELSE "rejected"
    /\ UNCHANGED <<batchVars, planVars, configDoc, texturePath, settingsOut, customOut>>

CfgResolve ==
    /\ cfgPc = "loaded"
    /\ settingsOut' = GetSettingsForTexture(configManager, texturePath)
    /\ cfgPc' = "resolved"
    /\ UNCHANGED <<batchVars, planVars, configDoc, configManager, texturePath, customOut>>

CfgHasCustom ==
    /\ cfgPc = "loaded"
    /\ customOut' = Bool(HasCustomSettings(configManager, texturePath))
    /\ cfgPc' = "asked"
    /\ UNCHANGED <<batchVars, planVars, configDoc, configManager, texturePath, settingsOut>>

NextConfig == CfgLoad \/ CfgResolve \/ CfgHasCustom

SpecConfig == InitConfig /\ [][NextConfig]_vars

(***************************************************************************)
(* optimizer.ts: TextureOptimizer                                          *)
(*                                                                         *)
(* File contents.  An image is its pixel size, its byte size and the       *)
(* lossy encodes it has been through (none for a pristine original); a    *)
(* file opened for writing whose bytes have not all arrived is Partial,    *)
(* which no decoder accepts, like Corrupt.                                 *)
(***************************************************************************)
FallbackQuality == 80
FallbackMaxSize == 512
MinDimension == 64
DefaultConcurrency == 10

Image(id, width, height) ==
    [k |-> "image", id |-> id, width |-> width, height |-> height,
     bytes |-> width * height, encodes |-> <<>>]
Partial == [k |-> "partial"]
Corrupt == [k |-> "corrupt"]

\* this.settings.key: undefined when the record has no such key
SettingsGet(settings, key) == IF key \in DOMAIN settings THEN settings[key] ELSE Undef

\* JavaScript truthiness of the values a settings field or an option can hold
Truthy(v) == v.t \notin {"undefined", "null"} /\ v # Bool(FALSE)

\* Math.round(a / b) for a >= 0, b > 0
RoundDiv(a, b) == (2 * a + b) \div (2 * b)

\* toPowerOf2: Math.pow(2, Math.floor(Math.log2(val))) for val = num / den >= 1;
\* 0 stands for the fraction it gives when val < 1
RECURSIVE Pow2Floor(_)
Pow2Floor(n) == IF n < 2 THEN n ELSE 2 * Pow2Floor(n \div 2)
ToPowerOf2(num, den) == Pow2Floor(num \div den)

ScaledDimensions(width, height, maxSize) ==
    LET longest == Max(width, height)
    IN IF longest <= maxSize THEN [width |-> width, height |-> height]
       ELSE [width |-> RoundDiv(width * maxSize, longest),
             height |-> RoundDiv(height * maxSize, longest)]

PowerOf2Dimensions(width, height, maxSize) ==
    LET w1 == Min(ToPowerOf2(width, 1), maxSize)
        h1 == Min(ToPowerOf2(height, 1), maxSize)
        over == w1 > maxSize \/ h1 > maxSize
        w2 == IF ~over THEN w1
              ELSE IF width > height THEN maxSize ELSE ToPowerOf2(maxSize * width, height)
        h2 == IF ~over THEN h1
              ELSE IF width > height THEN ToPowerOf2(maxSize * height, width) ELSE maxSize
    IN [width |-> Max(MinDimension, Min(w2, maxSize)),
        height |-> Max(MinDimension, Min(h2, maxSize))]

CalculateTargetDimensions(settings, width, height, maxSize) ==
    IF ~Truthy(SettingsGet(settings, "powerOf2"))
    THEN ScaledDimensions(width, height, maxSize)
    ELSE PowerOf2Dimensions(width, height, maxSize)

\* the fit the pipeline asks of sharp.resize
ResizeFit(settings) ==
    IF Truthy(SettingsGet(settings, "maintainAspectRatio")) THEN "inside" ELSE "fill"

\* sharp.resize(width, height, {fit}): the size of its output were enlargement allowed
ResizedDimensionsEnlarging(width, height, targetWidth, targetHeight, fit) ==
    IF fit = "fill"
    THEN [width |-> targetWidth, height |-> targetHeight]
    ELSE IF targetWidth * height <= targetHeight * width
         THEN [width |-> targetWidth,
               height |-> Max(1, RoundDiv(height * targetWidth, width))]
         ELSE [width |-> Max(1, RoundDiv(width * targetHeight, height)),
               height |-> targetHeight]

\* sharp.resize(width, height, {fit, withoutEnlargement: true}): the size of its output
ResizedDimensions(width, height, targetWidth, targetHeight, fit) ==
    IF fit = "fill"
    THEN [width |-> Min(width, targetWidth), height |-> Min(height, targetHeight)]
    ELSE IF width <= targetWidth /\ height <= targetHeight
         THEN [width |-> width, height |-> height]
         ELSE IF targetWidth * height <= targetHeight * width
              THEN [width |-> targetWidth,
                    height |-> Max(1, RoundDiv(height * targetWidth, width))]
              ELSE [width |-> Max(1, RoundDiv(width * targetHeight, height)),
                    height |-> targetHeight]

KnownFormats == {Chars("jpeg"), Chars("jpg"), Chars("png"), Chars("webp")}

\* applyCompression and toBuffer: the bytes sharp hands back
Encode(buf, dims, settings) ==
    LET format == SettingsGet(settings, "format")
        quality == SettingsGet(settings, "quality")
        lossy == format \in KnownFormats /\ quality # Undef
    IN [k |-> "image", id |-> buf.id, width |-> dims.width, height |-> dims.height,
        bytes |-> IF lossy THEN (dims.width * dims.height * quality.v) \div 1000 + 1
                  ELSE dims.width * dims.height,
        encodes |-> Append(buf.encodes, [format |-> format, quality |-> quality])]

\* sharp rejects a quality that is not an integer in 1..100
CodecQualityOk(settings) ==
    LET quality == SettingsGet(settings, "quality")
    IN \/ SettingsGet(settings, "format") \notin KnownFormats
       \/ quality = Undef
       \/ (quality.t = "number" /\ quality.v % 10 = 0 /\ quality.v >= 10 /\ quality.v <= 1000)

\* optimize, from its metadata() call to its toBuffer() call
OptimizeCodec(settings, buf) ==
    IF buf.k # "image" THEN [ok |-> FALSE, error |-> "Input buffer contains unsupported image format"]
    ELSE IF SettingsGet(settings, "maxSize") = Undef
    THEN [ok |-> FALSE, error |-> "Expected positive integer for width but received NaN"]
    ELSE LET originalSize == [width |-> buf.width, height |-> buf.height, bytes |-> buf.bytes]
             targetDims == CalculateTargetDimensions(settings, buf.width, buf.height,
                                                     settings.maxSize.v \div 10)
             outDims == ResizedDimensions(buf.width, buf.height, targetDims.width,
                                          targetDims.height, ResizeFit(settings))
         IN IF targetDims.width < 1 \/ targetDims.height < 1
            THEN [ok |-> FALSE, error |-> "Expected positive integer for height but received 0"]
            ELSE IF ~CodecQualityOk(settings)
            THEN [ok |-> FALSE, error |-> "Expected integer between 1 and 100 for quality"]
            ELSE [ok |-> TRUE, originalSize |-> originalSize, targetDims |-> targetDims,
                  resize |-> [fit |-> ResizeFit(settings), withoutEnlargement |-> TRUE],
                  outputBuffer |-> Encode(buf, outDims, settings)]

ZeroSize == [width |-> 0, height |-> 0, bytes |-> 0]

\* the record optimize returns from its catch block
FailureResultKeepsSizes(inputPath, settings, originalSize, message) ==
    [success |-> FALSE, inputPath |-> inputPath, outputPath |-> Undef,
     originalSize |-> originalSize, optimizedSize |-> ZeroSize,
     reductionPercent |-> [num |-> 0, den |-> 1], settings |-> settings, error |-> Str(message)]

FailureResult(inputPath, settings, originalSize, message) ==
    [success |-> FALSE, inputPath |-> inputPath, outputPath |-> Undef,
     originalSize |-> ZeroSize, optimizedSize |-> ZeroSize,
     reductionPercent |-> [num |-> 0, den |-> 1], settings |-> settings, error |-> Str(message)]

\* the record optimize returns after writeFile; reductionPercent is kept as a fraction
SuccessResult(inputPath, outputPath, settings, originalSize, targetDims, outputBuffer) ==
    [success |-> TRUE, inputPath |-> inputPath, outputPath |-> Str(outputPath),
     originalSize |-> originalSize,
     optimizedSize |-> [width |-> targetDims.width, height |-> targetDims.height,
                        bytes |-> outputBuffer.bytes],
     reductionPercent |-> [num |-> (originalSize.bytes - outputBuffer.bytes) * 100,
                           den |-> originalSize.bytes],
     settings |-> settings, error |-> Undef]

(***************************************************************************)
(* The planner on its own: settings and an original size are drawn, the    *)
(* target dimensions are computed and the resize is applied                *)
(***************************************************************************)
PlannerSizes == {1, 30, 63, 64, 65, 100, 600, 1000, 1024, 2000, 4096, 5000}

PlannerSettings ==
    { [maxSize |-> Int10(m), powerOf2 |-> Bool(TRUE)] : m \in MaxSizeLiterals }
    \cup { [maxSize |-> Int10(m), powerOf2 |-> Bool(TRUE), maintainAspectRatio |-> Bool(TRUE)] :
             m \in MaxSizeLiterals }
    \cup { [maxSize |-> Int10(m)] : m \in MaxSizeLiterals }

InitPlanner ==
    /\ planIn \in [settings : PlannerSettings, width : PlannerSizes, height : PlannerSizes]
    /\ planOut = Undef
    /\ resizeOut = Undef
    /\ configDoc = [file |-> "missing"]
    /\ texturePath = <<>>
    /\ cfgPc = "off"
    /\ configManager = Undef
    /\ settingsOut = Undef
    /\ customOut = Undef
    /\ files = NoFiles
    /\ dirs = {}
    /\ options = Undef
    /\ phase = "idle"
    /\ rejection = Undef
    /\ found = <<>>
    /\ idx = 0
    /\ results = <<>>
    /\ pipes = <<>>
    /\ runs = 0
    /\ faults = 0
    /\ backedUp = NoFiles
    /\ startFiles = NoFiles
    /\ startDirs = {}
    /\ rerun = FALSE
    /\ lastOptimized = {}
    /\ kills = 0

\* optimize, lines 44-48: this.calculateTargetDimensions(width, height, this.settings.maxSize)
Plan ==
    /\ planIn # Undef
    /\ planOut = Undef
    /\ planOut' = CalculateTargetDimensions(planIn.settings, planIn.width, planIn.height,
                                            planIn.settings.maxSize.v \div 10)
    /\ UNCHANGED <<batchVars, configDoc, configManager, cfgVars, planIn, resizeOut>>

\* optimize, lines 51-56: .resize(targetDims.width, targetDims.height, {...})
Resize ==
    /\ planOut # Undef
    /\ resizeOut = Undef
    /\ resizeOut' = ResizedDimensions(planIn.width, planIn.height, planOut.width,
                                      planOut.height, ResizeFit(planIn.settings))
    /\ UNCHANGED <<batchVars, configDoc, configManager, cfgVars, planIn, planOut>>

NextPlanner == Plan \/ Resize

SpecPlanner == InitPlanner /\ [][NextPlanner]_vars

(***************************************************************************)
(* batch-processor.ts: options, discovery, the start of processTexture     *)
(***************************************************************************)
SUPPORTED_FORMATS == {"png", "jpg", "jpeg", "webp"}
BackupDir == "_originalTexture"
DefaultExclude == {"node_modules", BackupDir}

\* the constructor: the defaults, overridden by every key the caller passed
Constructor(opts) ==
    LET defaults == [patterns |-> SUPPORTED_FORMATS, exclude |-> DefaultExclude,
                     concurrency |-> Int10(DefaultConcurrency), verbose |-> FALSE,
                     inPlaceMode |-> ~Truthy(SettingsGet(opts, "outputDir"))]
    IN [k \in DOMAIN defaults \cup DOMAIN opts |->
            IF k \in DOMAIN opts THEN opts[k] ELSE defaults[k]]

\* the UTF-16 code unit of a character, for Array.prototype.sort
CodeUnit(c) ==
    CASE c = "." -> 46 [] c = "/" -> 47 [] c = "2" -> 50
      [] c = "E" -> 69 [] c = "H" -> 72 [] c = "O" -> 79 [] c = "R" -> 82 [] c = "T" -> 84
      [] c = "_" -> 95 [] c = "a" -> 97 [] c = "b" -> 98 [] c = "c" -> 99 [] c = "d" -> 100
      [] c = "e" -> 101 [] c = "g" -> 103 [] c = "h" -> 104 [] c = "i" -> 105
      [] c = "j" -> 106 [] c = "l" -> 108 [] c = "m" -> 109 [] c = "n" -> 110
      [] c = "o" -> 111 [] c = "p" -> 112 [] c = "r" -> 114 [] c = "s" -> 115
      [] c = "t" -> 116 [] c = "u" -> 117 [] c = "v" -> 118 [] c = "w" -> 119
      [] c = "x" -> 120

\* the absolute path string of a path: "/" before every component
RECURSIVE PathChars(_)
PathChars(path) ==
    IF path = <<>> THEN <<>>
    ELSE <<"/">> \o Chars(Head(path)) \o PathChars(Tail(path))

\* a < b as strings, by code units
StringLess(a, b) ==
    \E n \in 1..Len(b) :
        /\ \A m \in 1..(n - 1) : m <= Len(a) /\ a[m] = b[m]
        /\ n > Len(a) \/ CodeUnit(a[n]) < CodeUnit(b[n])

\* [...new Set(allFiles)].sort()
RECURSIVE SortPaths(_)
SortPaths(S) ==
    IF S = {} THEN <<>>
    ELSE LET first == CHOOSE x \in S :
                        \A y \in S \ {x} : StringLess(PathChars(x), PathChars(y))
         IN <<first>> \o SortPaths(S \ {first})

\* glob('**/*.{exts}', {cwd: basePath, ignore: ['**/dir/**', ...]}) on the files present
GlobMatches(path, opts) ==
    /\ Len(path) > Len(opts.basePath)
    /\ Under(path, opts.basePath)
    /\ ExtName(path) # <<>>
    /\ \E e \in opts.patterns : Tail(ExtName(path)) = Chars(e)
    /\ ~\E n \in (Len(opts.basePath) + 1)..(Len(path) - 1) : path[n] \in opts.exclude

FindTextures(opts, fs) == SortPaths({path \in DOMAIN fs : GlobMatches(path, opts)})

\* Array.prototype.slice(from, to) for integers
Slice(seq, from, to) ==
    LET n == Len(seq)
        lo == IF from < 0 THEN Max(n + from, 0) ELSE Min(from, n)
        hi == IF to < 0 THEN Max(n + to, 0) ELSE Min(to, n)
    IN SubSeq(seq, lo + 1, hi)

\* i + chunkSize as files.slice takes it for its end: NaN, which undefined and NaN give,
\* counts as 0
SliceEnd(i, chunkSize) == IF chunkSize.t = "number" THEN i + chunkSize.v \div 10 ELSE 0

\* i += chunkSize, then i < n: false once i is NaN
LoopContinues(i, chunkSize, n) == chunkSize.t = "number" /\ i + chunkSize.v \div 10 < n

\* i += chunkSize for a chunkSize that is a number
NextIndex(i, chunkSize) == i + chunkSize.v \div 10

\* a path variable not assigned yet
NoPath == <<>>

\* the extension in lower case, 'jpeg' left as it is
DetectFormatNoAlias(inputPath) ==
    IF ExtName(inputPath) = <<>> THEN <<>> ELSE ToLowerCase(Tail(ExtName(inputPath)))

\* the format processTexture detects from the extension
DetectFormat(inputPath) ==
    LET ext == IF ExtName(inputPath) = <<>> THEN <<>> ELSE ToLowerCase(Tail(ExtName(inputPath)))
    IN IF ext = Chars("jpeg") THEN Chars("jpg") ELSE ext

OptimizerSettings(settings, format) ==
    [maxSize |-> Coalesce(settings.maxSize, Int10(FallbackMaxSize)),
     quality |-> Coalesce(settings.quality, Int10(FallbackQuality)),
     format |-> format]

BackupPathOf(inputPath) == Join(Join(DirName(inputPath), <<BackupDir>>), <<FileName(inputPath)>>)

\* path.relative(basePath, inputPath) for an inputPath under basePath
Relative(basePath, inputPath) == SubSeq(inputPath, Len(basePath) + 1, Len(inputPath))

\* the destination, had the directories below basePath not been mirrored
MirroredPathFlat(opts, inputPath) == Join(opts.outputDir.v, <<FileName(inputPath)>>)

MirroredPath(opts, inputPath) ==
    LET relativePath == Relative(opts.basePath, inputPath)
    IN Join(Join(opts.outputDir.v, DirName(relativePath)), <<FileName(relativePath)>>)

\* processTexture up to its first await, fs.access: sourcePath is assigned after it
ProcessTextureStart(opts, mgr, inputPath) ==
    CHOOSE started \in
        { IF opts.inPlaceMode
          THEN [call EXCEPT !.backupPath = BackupPathOf(inputPath),
                            !.accessPath = BackupPathOf(inputPath),
                            !.outputPath = inputPath]
          ELSE IF ~Truthy(SettingsGet(opts, "outputDir"))
          THEN [call EXCEPT !.pc = "threw",
                            !.error = "The \"path\" argument must be of type string"]
          ELSE [call EXCEPT !.accessPath = BackupPathOf(inputPath),
                            !.outputPath = MirroredPath(opts, inputPath)] :
          call \in {[inputPath |-> inputPath,
                     settings |-> OptimizerSettings(settings, DetectFormat(inputPath)),
                     sourcePath |-> NoPath, outputPath |-> NoPath, backupPath |-> NoPath,
                     accessPath |-> NoPath, isReoptimization |-> FALSE, backupSeen |-> FALSE,
                     pc |-> "access", originalBuffer |-> Undef, codec |-> Undef,
                     result |-> Undef, error |-> ""] :
                    settings \in {GetSettingsForTexture(mgr, inputPath)}} } : TRUE

\* processTexture after fs.access settled: the source of truth, and what comes next
AfterAccessSkipsBackup(opts, call, exists) ==
    IF exists
    THEN [call EXCEPT !.sourcePath = call.accessPath, !.isReoptimization = TRUE, !.pc = "read"]
    ELSE [call EXCEPT !.sourcePath = call.inputPath, !.pc = "read"]

AfterAccessReadsLive(opts, call, exists) ==
    IF exists
    THEN [call EXCEPT !.sourcePath = call.inputPath, !.isReoptimization = TRUE, !.pc = "read"]
    ELSE [call EXCEPT !.sourcePath = call.inputPath,
                      !.pc = IF opts.inPlaceMode THEN "backupMkdir" ELSE "read"]

AfterAccess(opts, call, exists) ==
    IF exists
    THEN [call EXCEPT !.sourcePath = call.accessPath, !.isReoptimization = TRUE, !.pc = "read"]
    ELSE [call EXCEPT !.sourcePath = call.inputPath,
                      !.pc = IF opts.inPlaceMode THEN "backupMkdir" ELSE "read"]

\* fs.mkdir(dir, {recursive: true}): dir and every ancestor of it
Ancestors(dir) == {SubSeq(dir, 1, n) : n \in 1..Len(dir)}
MkdirPossible(dir, fs) == Ancestors(dir) \cap DOMAIN fs = {}

(***************************************************************************)
(* batch-processor.ts: processAll and processTexture as a state machine    *)
(*                                                                         *)
(* A run is one BatchProcessor, constructed and asked to processAll.  Each *)
(* await of processTexture/optimize is one step; what follows a settled    *)
(* promise without another await happens in the same step.  Every I/O call *)
(* may fail: the environment injects at most MaxFaults such faults.        *)
(***************************************************************************)
MaxRuns == 2
MaxFaults == 1
MaxConcurrency == 2

BasePath == <<"base">>
HeroPng == <<"base", "Hero.png">>
BgJpeg == <<"base", "ui", "bg.jpeg">>
\* a backup whose live file is gone
IconBackup == <<"base", "ui", BackupDir, "icon.png">>

\* what callers pass to the constructor
OptionChoices ==
    { [basePath |-> BasePath, concurrency |-> Int10(1)],
      [basePath |-> BasePath, concurrency |-> Int10(MaxConcurrency)],
      [basePath |-> BasePath, concurrency |-> Int10(MaxConcurrency), outputDir |-> Str(<<"out">>)],
      [basePath |-> BasePath, concurrency |-> Int10(MaxConcurrency),
       outputDir |-> Str(<<"base", BackupDir>>)] }

\* keys the schema does not declare
UndeclaredKeys ==
    [format |-> Str("webp"), powerOf2 |-> Bool(TRUE), maintainAspectRatio |-> Bool(TRUE)]

WithUndeclaredKeys(obj) ==
    Obj([k \in DOMAIN obj.v \cup DOMAIN UndeclaredKeys |->
            IF k \in DOMAIN obj.v THEN obj.v[k] ELSE UndeclaredKeys[k]])

ConfigJson(defaults, textures) ==
    [file |-> "json", value |-> JsonObject([defaultSettings |-> defaults, textures |-> Arr(textures)])]

\* the documents a run may find at textureConfigPath
RunConfigs ==
    { ConfigJson(SettingsJson(Int10(512), Int10(80)), <<>>),
      ConfigJson(WithUndeclaredKeys(SettingsJson(Int10(512), Int10(80))),
                 <<WithUndeclaredKeys(EntryJson(Str("hero"), Bool(FALSE), Int10(64), Int10(90)))>>),
      ConfigJson(SettingsJson(Int10(512), Int10(150)), <<>>),
      [file |-> "missing"],
      [file |-> "garbage"] }

Init ==
    /\ files \in { [p \in {HeroPng, BgJpeg, IconBackup} |->
                      IF p = HeroPng THEN Image("hero", 900, 600)
                      ELSE IF p = BgJpeg THEN bg
                      ELSE Image("icon", 128, 128)] :
                   bg \in {Image("bg", 2000, 1000), Corrupt} }
    /\ dirs = {BasePath, <<"base", "ui">>, <<"base", "ui", BackupDir>>}
    /\ configDoc = [file |-> "missing"]
    /\ options = Undef
    /\ configManager = Undef
    /\ phase = "idle"
    /\ rejection = Undef
    /\ found = <<>>
    /\ idx = 0
    /\ results = <<>>
    /\ pipes = <<>>
    /\ runs = 0
    /\ faults = 0
    /\ backedUp = NoFiles
    /\ startFiles = NoFiles
    /\ startDirs = {}
    /\ rerun = FALSE
    /\ lastOptimized = {}
    /\ kills = 0
    /\ texturePath = <<>>
    /\ settingsOut = Undef
    /\ customOut = Undef
    /\ planIn = Undef
    /\ planOut = Undef
    /\ resizeOut = Undef
    /\ cfgPc = "off"

Settled(call) == call.pc \in {"returned", "threw"}

\* fs with path holding content
WriteAt(fs, path, content) ==
    [p \in DOMAIN fs \cup {path} |-> IF p = path THEN content ELSE fs[p]]

RemoveAt(fs, path) == [p \in DOMAIN fs \ {path} |-> fs[p]]

\* chunk.map(filePath => this.processTexture(filePath)) for the chunk at i
StartChunk(i, fnd) ==
    LET chunk == Slice(fnd, i, SliceEnd(i, options.concurrency))
    IN [k \in 1..Len(chunk) |-> ProcessTextureStart(options, configManager, chunk[k])]

\* new BatchProcessor(opts).processAll() is called, the document at textureConfigPath
\* being doc
StartRun(opts, doc) ==
    /\ phase \in {"idle", "resolved", "rejected"}
    /\ \A k \in DOMAIN pipes : Settled(pipes[k])
    /\ runs < MaxRuns
    /\ runs' = runs + 1
    /\ options' = Constructor(opts)
    /\ configDoc' = doc
    /\ configManager' = Undef
    /\ phase' = "load"
    /\ rejection' = Undef
    /\ found' = <<>>
    /\ idx' = 0
    /\ results' = <<>>
    /\ pipes' = <<>>
    /\ startFiles' = files
    /\ startDirs' = dirs
    /\ rerun' = (phase = "resolved" /\ options = Constructor(opts) /\ configDoc = doc)
    /\ lastOptimized' = IF phase = "resolved"
                        THEN {found[i] : i \in {j \in DOMAIN results : results[j].success}}
                        ELSE {}
    /\ UNCHANGED <<files, dirs, faults, backedUp, kills, cfgVars, planVars>>

\* processAll, had it looked for textures before it loaded the document
LoadConfigAfterDiscovery ==
    /\ phase = "load"
    /\ found' = FindTextures(options, files)
    /\ LET mgr == LoadFromFile(configDoc)
       IN IF mgr.ok
          THEN /\ configManager' = mgr
               /\ phase' = "glob"
               /\ rejection' = rejection
          ELSE /\ configManager' = configManager
               /\ phase' = "rejected"
               /\ rejection' = Str(mgr.error)
    /\ UNCHANGED <<files, dirs, configDoc, options, idx, results, pipes, runs,
                   faults, backedUp, startFiles, startDirs, rerun, lastOptimized, kills,
                   cfgVars, planVars>>

\* await TextureConfigManager.loadFromFile(...) settles
LoadConfig ==
    /\ phase = "load"
    /\ LET mgr == LoadFromFile(configDoc)
       IN IF mgr.ok
          THEN /\ configManager' = mgr
               /\ phase' = "glob"
               /\ rejection' = rejection
          ELSE /\ configManager' = configManager
               /\ phase' = "rejected"
               /\ rejection' = Str(mgr.error)
    /\ UNCHANGED <<files, dirs, configDoc, options, found, idx, results, pipes, runs,
                   faults, backedUp, startFiles, startDirs, rerun, lastOptimized, kills,
                   cfgVars, planVars>>

\* processAll without the await of Promise.all: the next chunk is started while a call
\* of the current one is still pending
ContinueWithoutAwait(i, fnd, calls) ==
    IF phase # "chunk" THEN
        /\ pipes' = calls
        /\ UNCHANGED <<rejection, idx, results>>
    ELSE IF LoopContinues(i, options.concurrency, Len(fnd)) THEN
        /\ idx' = NextIndex(i, options.concurrency)
        /\ pipes' = StartChunk(NextIndex(i, options.concurrency), fnd)
        /\ UNCHANGED <<rejection, results>>
    ELSE
        /\ pipes' = calls
        /\ UNCHANGED <<rejection, idx, results>>

\* what processAll does once the calls of the chunk at i stand as calls: it rejects when
\* one has thrown, goes on to the next chunk or returns when all have returned
Continue(i, fnd, calls) ==
    IF phase # "chunk" THEN
        /\ pipes' = calls
        /\ UNCHANGED <<rejection, idx, results>>
    ELSE IF \E k \in DOMAIN calls : calls[k].pc = "threw" THEN
        /\ pipes' = calls
        /\ rejection' = Str((calls[CHOOSE k \in DOMAIN calls : calls[k].pc = "threw"]).error)
        /\ UNCHANGED <<idx, results>>
    ELSE IF \A k \in DOMAIN calls : calls[k].pc = "returned" THEN
        /\ results' = results \o [k \in DOMAIN calls |-> calls[k].result]
        /\ UNCHANGED rejection
        /\ IF LoopContinues(i, options.concurrency, Len(fnd))
           THEN /\ idx' = NextIndex(i, options.concurrency)
                /\ pipes' = StartChunk(NextIndex(i, options.concurrency), fnd)
           ELSE /\ idx' = i
                /\ pipes' = calls
    ELSE
        /\ pipes' = calls
        /\ UNCHANGED <<rejection, idx, results>>

\* the phase processAll is in once the calls of the chunk at i stand as calls
PhaseAfter(i, fnd, calls) ==
    IF phase # "chunk" /\ phase # "glob" THEN phase
    ELSE IF \E k \in DOMAIN calls : calls[k].pc = "threw" THEN "rejected"
    ELSE IF (\A k \in DOMAIN calls : calls[k].pc = "returned")
            /\ ~LoopContinues(i, options.concurrency, Len(fnd)) THEN "resolved"
    ELSE "chunk"

\* await this.findTextures() settles and the loop starts its first chunk
Discover ==
    /\ phase = "glob"
    /\ \E fnd \in {FindTextures(options, files)} :
          \E calls \in {StartChunk(0, fnd)} :
             \E after \in {PhaseAfter(0, fnd, calls)} :
                /\ found' = fnd
                /\ pipes' = calls
                /\ phase' = after
                /\ rejection' =
                      IF after = "rejected"
                      THEN Str((calls[CHOOSE k \in DOMAIN calls : calls[k].pc = "threw"]).error)
                      ELSE rejection
    /\ idx' = 0
    /\ results' = <<>>
    /\ UNCHANGED <<files, dirs, configDoc, options, configManager, runs, faults, backedUp,
                   startFiles, startDirs, rerun, lastOptimized, kills,
                   cfgVars, planVars>>

\* call k of the chunk becomes call, and processAll reacts
Step(k, call) ==
    /\ phase' = PhaseAfter(idx, found, [pipes EXCEPT ![k] = call])
    /\ Continue(idx, found, [pipes EXCEPT ![k] = call])
    /\ UNCHANGED <<configDoc, options, configManager, found, runs, startFiles, startDirs,
                   rerun, lastOptimized, kills,
                   cfgVars, planVars>>

Fault == faults < MaxFaults /\ faults' = faults + 1
NoFault == faults' = faults

\* processTexture rejects
Throws(call, message) == [call EXCEPT !.pc = "threw", !.error = message]

\* optimize's catch block: the call returns a failed result
OptimizeFails(call, message) ==
    [call EXCEPT !.pc = "returned",
                 !.result = FailureResult(call.sourcePath, call.settings,
                                          IF call.codec = Undef THEN ZeroSize
                                          ELSE call.codec.originalSize, message)]

\* await fs.access(backupPath) settles
Access(k) ==
    /\ k \in DOMAIN pipes
    /\ pipes[k].pc = "access"
    /\ LET exists == pipes[k].accessPath \in DOMAIN files
       IN Step(k, [AfterAccess(options, pipes[k], exists) EXCEPT !.backupSeen = exists])
    /\ NoFault
    /\ UNCHANGED <<files, dirs, backedUp>>

\* backupOriginal: await fs.mkdir(path.dirname(backupPath), {recursive: true}) settles
BackupMkdir(k) ==
    /\ k \in DOMAIN pipes
    /\ pipes[k].pc = "backupMkdir"
    /\ \/ /\ MkdirPossible(DirName(pipes[k].backupPath), files)
          /\ dirs' = dirs \cup Ancestors(DirName(pipes[k].backupPath))
          /\ Step(k, [pipes[k] EXCEPT !.pc = "backupCopy"])
          /\ NoFault
       \/ /\ Fault
          /\ dirs' = dirs
          /\ Step(k, Throws(pipes[k], "EACCES: permission denied, mkdir"))
    /\ UNCHANGED <<files, backedUp>>

\* backupOriginal: fs.copyFile opens the backup for writing
BackupCopyOpen(k) ==
    /\ k \in DOMAIN pipes
    /\ pipes[k].pc = "backupCopy"
    /\ \/ /\ pipes[k].inputPath \in DOMAIN files
          /\ files' = WriteAt(files, pipes[k].backupPath, Partial)
          /\ Step(k, [pipes[k] EXCEPT !.pc = "backupCopying"])
          /\ NoFault
       \/ /\ Fault
          /\ files' = files
          /\ Step(k, Throws(pipes[k], "EACCES: permission denied, copyfile"))
    /\ UNCHANGED <<dirs, backedUp>>

\* backupOriginal: await fs.copyFile(originalPath, backupPath) settles; on an error the
\* destination is removed if that can be done
BackupCopyFinish(k) ==
    /\ k \in DOMAIN pipes
    /\ pipes[k].pc = "backupCopying"
    /\ \/ /\ pipes[k].inputPath \in DOMAIN files
          /\ files' = WriteAt(files, pipes[k].backupPath, files[pipes[k].inputPath])
          /\ backedUp' = WriteAt(backedUp, pipes[k].backupPath, files[pipes[k].inputPath])
          /\ Step(k, [pipes[k] EXCEPT !.pc = "read"])
          /\ NoFault
       \/ /\ Fault
          /\ \E removed \in BOOLEAN :
                files' = IF removed THEN RemoveAt(files, pipes[k].backupPath) ELSE files
          /\ backedUp' = backedUp
          /\ Step(k, Throws(pipes[k], "ENOSPC: no space left on device, copyfile"))
    /\ UNCHANGED dirs

\* optimize, had it opened its destination before it read its source
ReadOpeningDestination(k) ==
    /\ k \in DOMAIN pipes
    /\ pipes[k].pc = "read"
    /\ files' = WriteAt(files, pipes[k].outputPath, Partial)
    /\ \/ /\ NoFault
          /\ IF pipes[k].sourcePath \in DOMAIN files
             THEN Step(k, [pipes[k] EXCEPT !.pc = "codec",
                                           !.originalBuffer = files[pipes[k].sourcePath]])
             ELSE Step(k, OptimizeFails(pipes[k], "ENOENT: no such file or directory, open"))
       \/ /\ Fault
          /\ Step(k, OptimizeFails(pipes[k], "EIO: i/o error, read"))
    /\ UNCHANGED <<dirs, backedUp>>

\* optimize: await fs.readFile(inputPath) settles
Read(k) ==
    /\ k \in DOMAIN pipes
    /\ pipes[k].pc = "read"
    /\ \/ /\ NoFault
          /\ IF pipes[k].sourcePath \in DOMAIN files
             THEN Step(k, [pipes[k] EXCEPT !.pc = "codec",
                                           !.originalBuffer = files[pipes[k].sourcePath]])
             ELSE Step(k, OptimizeFails(pipes[k], "ENOENT: no such file or directory, open"))
       \/ /\ Fault
          /\ Step(k, OptimizeFails(pipes[k], "EIO: i/o error, read"))
    /\ UNCHANGED <<files, dirs, backedUp>>

\* optimize: metadata(), calculateTargetDimensions, resize, applyCompression and
\* await pipeline.toBuffer() settle
Codec(k) ==
    /\ k \in DOMAIN pipes
    /\ pipes[k].pc = "codec"
    /\ LET o == OptimizeCodec(pipes[k].settings, pipes[k].originalBuffer)
       IN \/ /\ NoFault
             /\ IF o.ok
                THEN Step(k, [pipes[k] EXCEPT !.pc = "mkdir", !.codec = o])
                ELSE Step(k, OptimizeFails(pipes[k], o.error))
          \/ /\ Fault
             /\ Step(k, OptimizeFails(pipes[k], "VipsOperation: out of memory"))
    /\ UNCHANGED <<files, dirs, backedUp>>

\* optimize: await fs.mkdir(path.dirname(outputPath), {recursive: true}) settles
OutputMkdir(k) ==
    /\ k \in DOMAIN pipes
    /\ pipes[k].pc = "mkdir"
    /\ \/ /\ MkdirPossible(DirName(pipes[k].outputPath), files)
          /\ dirs' = dirs \cup Ancestors(DirName(pipes[k].outputPath))
          /\ Step(k, [pipes[k] EXCEPT !.pc = "write"])
          /\ NoFault
       \/ /\ Fault
          /\ dirs' = dirs
          /\ Step(k, OptimizeFails(pipes[k], "EACCES: permission denied, mkdir"))
    /\ UNCHANGED <<files, backedUp>>

\* optimize: fs.writeFile opens (creates or truncates) the destination
WriteOpen(k) ==
    /\ k \in DOMAIN pipes
    /\ pipes[k].pc = "write"
    /\ \/ /\ files' = WriteAt(files, pipes[k].outputPath, Partial)
          /\ Step(k, [pipes[k] EXCEPT !.pc = "writing"])
          /\ NoFault
       \/ /\ Fault
          /\ files' = files
          /\ Step(k, OptimizeFails(pipes[k], "EACCES: permission denied, open"))
    /\ UNCHANGED <<dirs, backedUp>>

\* optimize: await fs.writeFile(outputPath, outputBuffer) settles
WriteFinish(k) ==
    /\ k \in DOMAIN pipes
    /\ pipes[k].pc = "writing"
    /\ \/ /\ files' = WriteAt(files, pipes[k].outputPath, pipes[k].codec.outputBuffer)
          /\ Step(k, [pipes[k] EXCEPT
                        !.pc = "returned",
                        !.result = SuccessResult(pipes[k].sourcePath, pipes[k].outputPath,
                                                 pipes[k].settings, pipes[k].codec.originalSize,
                                                 pipes[k].codec.targetDims,
                                                 pipes[k].codec.outputBuffer)])
          /\ NoFault
       \/ /\ Fault
          /\ files' = files
          /\ Step(k, OptimizeFails(pipes[k], "ENOSPC: no space left on device, write"))
    /\ UNCHANGED <<dirs, backedUp>>

\* a pending await of the current run settles
Progress ==
    \/ LoadConfig
    \/ Discover
    \/ \E k \in 1..MaxConcurrency : Access(k)
    \/ \E k \in 1..MaxConcurrency : BackupMkdir(k)
    \/ \E k \in 1..MaxConcurrency : BackupCopyOpen(k)
    \/ \E k \in 1..MaxConcurrency : BackupCopyFinish(k)
    \/ \E k \in 1..MaxConcurrency : Read(k)
    \/ \E k \in 1..MaxConcurrency : Codec(k)
    \/ \E k \in 1..MaxConcurrency : OutputMkdir(k)
    \/ \E k \in 1..MaxConcurrency : WriteOpen(k)
    \/ \E k \in 1..MaxConcurrency : WriteFinish(k)

Next ==
    \/ \E opts \in OptionChoices, doc \in RunConfigs : StartRun(opts, doc)
    \/ Progress

Spec == Init /\ [][Next]_vars

\* the event loop runs every continuation that is ready and every I/O call settles, so a
\* run with a pending await goes on; nothing obliges a caller to start another run
FairSpec == Spec /\ WF_vars(Progress)

(***************************************************************************)
(* The processor as a library: BatchProcessorOptions leaves patterns,      *)
(* exclude, concurrency and inPlaceMode to the caller and the constructor  *)
(* checks none of them.  The same run, started with such options.          *)
(***************************************************************************)
MaxBackward == 2

\* what a caller of the class may pass: its own exclude list or patterns, an inPlaceMode
\* of its own, a concurrency that is 0, negative, undefined, or the NaN of parseInt
CallerOptions ==
    { [basePath |-> BasePath, concurrency |-> Int10(MaxConcurrency)],
      [basePath |-> BasePath, concurrency |-> Int10(MaxConcurrency),
       exclude |-> {"node_modules"}],
      [basePath |-> BasePath, concurrency |-> Int10(MaxConcurrency), patterns |-> {"png"}],
      [basePath |-> BasePath, concurrency |-> Int10(MaxConcurrency),
       outputDir |-> Str(<<"out">>), inPlaceMode |-> TRUE],
      [basePath |-> BasePath, concurrency |-> Int10(MaxConcurrency), inPlaceMode |-> FALSE],
      [basePath |-> BasePath, concurrency |-> Int10(0)],
      [basePath |-> BasePath, concurrency |-> Int10(-1)],
      [basePath |-> BasePath, concurrency |-> Undef],
      [basePath |-> BasePath, concurrency |-> NaN] }

\* a document with default settings and no entries
DefaultsOnlyConfig == ConfigJson(SettingsJson(Int10(512), Int10(80)), <<>>)

\* the loop's await Promise.all([]) of an empty chunk settles
EmptyChunk ==
    /\ phase = "chunk"
    /\ pipes = <<>>
    /\ idx > -MaxBackward
    /\ phase' = PhaseAfter(idx, found, pipes)
    /\ Continue(idx, found, pipes)
    /\ UNCHANGED <<files, dirs, configDoc, options, configManager, found, runs, faults,
                   backedUp, startFiles, startDirs, rerun, lastOptimized, kills,
                   cfgVars, planVars>>

NextCaller ==
    \/ \E opts \in CallerOptions : StartRun(opts, DefaultsOnlyConfig)
    \/ Progress
    \/ EmptyChunk

SpecCaller == Init /\ [][NextCaller]_vars

(***************************************************************************)
(* In-place runs of a process that may be killed.  A kill ends every call  *)
(* where it stands: a file opened by copyFile or writeFile whose bytes     *)
(* have not all arrived stays as it is.                                    *)
(***************************************************************************)
MaxKills == 1

InPlaceChoices == {opts \in OptionChoices : "outputDir" \notin DOMAIN opts}

\* the process is killed while the loop of processAll awaits a chunk
Kill ==
    /\ phase = "chunk"
    /\ kills < MaxKills
    /\ kills' = kills + 1
    /\ phase' = "idle"
    /\ pipes' = <<>>
    /\ found' = <<>>
    /\ idx' = 0
    /\ results' = <<>>
    /\ UNCHANGED <<files, dirs, configDoc, options, configManager, rejection, runs, faults,
                   backedUp, startFiles, startDirs, rerun, lastOptimized, cfgVars, planVars>>

NextCrash ==
    \/ \E opts \in InPlaceChoices : StartRun(opts, DefaultsOnlyConfig)
    \/ Progress
    \/ Kill

SpecCrash == Init /\ [][NextCrash]_vars


(***************************************************************************)
(* Claims                                                                  *)
(***************************************************************************)

\* ---- C8: the documents loadFromFile accepts ----
ClaimMaxSizeOk(v) == v.t = "number" /\ \E m \in {32, 64, 128, 256, 512, 1024, 2048, 4096} : v.v = 10 * m
ClaimIntegerQualityOk(v) == v.t = "number" /\ v.v % 10 = 0 /\ (v.v \div 10) \in 1..100
ClaimNumberQualityOk(v) == v.t = "number" /\ v.v >= 10 /\ v.v <= 1000

ClaimQualityOk(v, integerOnly) ==
    IF integerOnly THEN ClaimIntegerQualityOk(v) ELSE ClaimNumberQualityOk(v)

ClaimEntryOk(e, integerOnly) ==
    /\ e.t = "object"
    /\ "name" \in DOMAIN e.v /\ e.v["name"].t = "string"
    /\ "useDefault" \in DOMAIN e.v /\ e.v["useDefault"].t = "boolean"
    /\ ("maxSize" \in DOMAIN e.v => ClaimMaxSizeOk(e.v["maxSize"]))
    /\ ("quality" \in DOMAIN e.v => ClaimQualityOk(e.v["quality"], integerOnly))

ClaimTexturesOk(doc, integerOnly) ==
    /\ "textures" \in DOMAIN doc.value.v
    /\ doc.value.v["textures"].t = "array"
    /\ \A n \in 1..Len(doc.value.v["textures"].v) :
            ClaimEntryOk(doc.value.v["textures"].v[n], integerOnly)

\* the acceptance set as the claim words it: both default fields required, quality an integer
AcceptedAsClaimed(doc) ==
    /\ doc.file = "json"
    /\ doc.value.t = "object"
    /\ "defaultSettings" \in DOMAIN doc.value.v
    /\ LET d == doc.value.v["defaultSettings"]
       IN /\ d.t = "object"
          /\ "maxSize" \in DOMAIN d.v /\ ClaimMaxSizeOk(d.v["maxSize"])
          /\ "quality" \in DOMAIN d.v /\ ClaimIntegerQualityOk(d.v["quality"])
    /\ ClaimTexturesOk(doc, TRUE)

\* the acceptance set of the code: every settings field optional, quality any number in [1,100]
AcceptedAsAmended(doc) ==
    /\ doc.file = "json"
    /\ doc.value.t = "object"
    /\ "defaultSettings" \in DOMAIN doc.value.v
    /\ LET d == doc.value.v["defaultSettings"]
       IN /\ d.t = "object"
          /\ ("maxSize" \in DOMAIN d.v => ClaimMaxSizeOk(d.v["maxSize"]))
          /\ ("quality" \in DOMAIN d.v => ClaimNumberQualityOk(d.v["quality"]))
    /\ ClaimTexturesOk(doc, FALSE)

\* C8 as stated: loadFromFile succeeds exactly on the documents whose defaultSettings
\* carries both maxSize (enumerated) and an integer quality in 1..100 and whose textures
\* entries are well formed; every other document fails with an error.
C8_AcceptanceAsClaimed ==
    cfgPc # "start" =>
        /\ configManager.ok <=> AcceptedAsClaimed(configDoc)
        /\ (~configManager.ok => configManager.error # "")

\* C8 amended: loadFromFile succeeds exactly on the readable, parseable documents with a
\* defaultSettings object whose maxSize, when present, is enumerated and whose quality,
\* when present, is a number (not necessarily an integer) in [1,100], and a textures array
\* of well-formed entries under the same constraints; every other document fails with an
\* error.
C8_AcceptanceSet ==
    cfgPc # "start" =>
        /\ configManager.ok <=> AcceptedAsAmended(configDoc)
        /\ (~configManager.ok => configManager.error # "")

\* a document the code accepts although its defaultSettings lacks a field or carries a
\* fractional quality has been loaded
C8_Witness ==
    /\ cfgPc = "loaded"
    /\ configManager.ok
    /\ ~AcceptedAsClaimed(configDoc)
    /\ Len(configDoc.value.v["textures"].v) > 0

\* ---- C9: getSettingsForTexture against the reference resolver ----
\* the last component of the path up to its last ".", the whole component when it has no
\* "." after its first character
RefStem(path) ==
    LET cs == Chars(path[Len(path)])
        dots == {n \in 2..Len(cs) : cs[n] = "."}
    IN IF dots = {} THEN cs
       ELSE SubSeq(cs, 1, (CHOOSE n \in dots : \A m \in dots : m <= n) - 1)

RefLower(cs) ==
    LET lower == [c \in {"H", "E", "R", "O"} |->
                    IF c = "H" THEN "h" ELSE IF c = "E" THEN "e" ELSE IF c = "R" THEN "r" ELSE "o"]
    IN [n \in 1..Len(cs) |-> IF cs[n] \in DOMAIN lower THEN lower[cs[n]] ELSE cs[n]]

RefMatches(doc, path) ==
    {n \in 1..Len(doc.value.v["textures"].v) :
        RefLower(Chars(doc.value.v["textures"].v[n].v["name"].v)) = RefLower(RefStem(path))}

RefDefault(doc, k) ==
    IF k \in DOMAIN doc.value.v["defaultSettings"].v
    THEN doc.value.v["defaultSettings"].v[k] ELSE Undef

RefResolve(doc, path) ==
    LET matches == RefMatches(doc, path)
        defaults == [maxSize |-> RefDefault(doc, "maxSize"), quality |-> RefDefault(doc, "quality")]
    IN IF matches = {} THEN defaults
       ELSE LET last == CHOOSE n \in matches : \A m \in matches : m <= n
                e == doc.value.v["textures"].v[last].v
            IN IF e["useDefault"].v THEN defaults
               ELSE [k \in {"maxSize", "quality"} |->
                        IF k \in DOMAIN e THEN e[k] ELSE defaults[k]]

\* C9: for every accepted document and every path, getSettingsForTexture returns what the
\* reference resolver returns: lowercased basename without extension, last entry of that
\* lowercased name, defaults when there is none or it has useDefault, else field by field.
C9_ResolverMatchesReference ==
    cfgPc = "resolved" => settingsOut = RefResolve(configDoc, texturePath)

\* a path whose name two entries share up to case, the two disagreeing on useDefault,
\* has been resolved
C9_Witness ==
    /\ cfgPc = "resolved"
    /\ \E m, n \in RefMatches(configDoc, texturePath) :
          /\ m < n
          /\ configDoc.value.v["textures"].v[m].v["useDefault"].v
          /\ ~configDoc.value.v["textures"].v[n].v["useDefault"].v
          /\ "maxSize" \notin DOMAIN configDoc.value.v["textures"].v[n].v
    /\ settingsOut # configManager.config.defaultSettings

\* ---- C10: what leaves the resolver ----
ResolvedMaxSizeOk(v) == v.t = "number" /\ v.v \in {320, 640, 1280, 2560, 5120, 10240, 20480, 40960}
ResolvedQualityOk(v) == v.t = "number" /\ v.v >= 10 /\ v.v <= 1000

\* C10 as stated: every resolved record has maxSize defined and enumerated and quality
\* defined and in [1,100].
C10_FullyPopulatedAsClaimed ==
    cfgPc = "resolved" =>
        /\ ResolvedMaxSizeOk(settingsOut.maxSize)
        /\ ResolvedQualityOk(settingsOut.quality)

\* C10 amended: every resolved field is either a valid value (maxSize enumerated, quality
\* in [1,100]) or undefined, and it is undefined only when defaultSettings omits it; so the
\* record is fully populated whenever defaultSettings carries both fields.
C10_PopulatedUnlessDefaultOmits ==
    cfgPc = "resolved" =>
        /\ ResolvedMaxSizeOk(settingsOut.maxSize)
             \/ (settingsOut.maxSize = Undef /\ RefDefault(configDoc, "maxSize") = Undef)
        /\ ResolvedQualityOk(settingsOut.quality)
             \/ (settingsOut.quality = Undef /\ RefDefault(configDoc, "quality") = Undef)

\* a custom entry that leaves quality to a default carrying it has been resolved
C10_Witness ==
    /\ cfgPc = "resolved"
    /\ HasCustomSettings(configManager, texturePath)
    /\ configManager.textureMap[ToLowerCase(BaseName(texturePath, ExtName(texturePath)))].quality = Undef
    /\ settingsOut.quality # Undef

(***************************************************************************)
(* Claims about runs                                                       *)
(***************************************************************************)
\* the backup location of a live path: <dir>/_originalTexture/<file>
ClaimBackupPath(p) == SubSeq(p, 1, Len(p) - 1) \o <<"_originalTexture", p[Len(p)]>>

ClaimInPlace == options # Undef /\ options.inPlaceMode
ClaimOutputRootGiven == options # Undef /\ "outputDir" \in DOMAIN options

\* C1: every backup still holds the bytes the live file had when the backup was
\* first created, after any runs with any output root
C1_PristineBackup ==
    \A bp \in DOMAIN backedUp : bp \in DOMAIN files /\ files[bp] = backedUp[bp]

\* an in-place run is handling, or has handled, a file whose backup it found
ClaimReoptimized(call) == ClaimInPlace /\ call.backupSeen

ClaimBackupComplete(fs, p) ==
    /\ ClaimBackupPath(p) \in DOMAIN fs
    /\ fs[ClaimBackupPath(p)] # Partial

ClaimLiveChanges(p) ==
    /\ p \in DOMAIN files'
    /\ (p \notin DOMAIN files \/ files'[p] # files[p])

\* C3: in an in-place run every step that changes a live file finds that file's backup
\* present and complete; when the run began without that backup, the backup holds the
\* bytes the live file had before the step
C3_BackupBeforeWriteStep ==
    \A p \in DOMAIN files' :
        (ClaimInPlace /\ Under(p, BasePath) /\ BackupDir \notin {p[n] : n \in 1..Len(p)}
            /\ ClaimLiveChanges(p)) =>
            /\ ClaimBackupComplete(files, p)
            /\ ClaimBackupComplete(files', p)
            /\ files'[ClaimBackupPath(p)] = files[ClaimBackupPath(p)]
            /\ ClaimBackupPath(p) \notin DOMAIN startFiles =>
                  files[ClaimBackupPath(p)] = startFiles[p]

C3_BackupBeforeWrite == [][C3_BackupBeforeWriteStep]_vars

\* a first in-place run has overwritten a live file, whose backup holds the bytes the
\* file had before the run
C3_Witness ==
    /\ ClaimInPlace
    /\ \E k \in DOMAIN pipes :
        /\ ~pipes[k].backupSeen
        /\ pipes[k].pc = "returned"
        /\ pipes[k].result.success
        /\ files[pipes[k].inputPath] # startFiles[pipes[k].inputPath]
        /\ files[ClaimBackupPath(pipes[k].inputPath)] = startFiles[pipes[k].inputPath]

\* C4: a run given an output root creates, changes and deletes nothing under the base
\* path
C4_InputTreeUntouched ==
    ClaimOutputRootGiven =>
        /\ \A p \in DOMAIN files \cup DOMAIN startFiles :
              Under(p, BasePath) =>
                  p \in DOMAIN files /\ p \in DOMAIN startFiles /\ files[p] = startFiles[p]
        /\ \A d \in dirs \cup startDirs :
              Under(d, BasePath) => d \in dirs /\ d \in startDirs

ClaimConfigLoaded == configManager # Undef

\* C5: processAll rejects only for its config document; a failure while one file is
\* handled leaves it resolving with one result for every discovered file
C5_FailureIsolation ==
    /\ phase = "rejected" => ~ClaimConfigLoaded
    /\ phase = "resolved" =>
          /\ Len(results) = Len(found)
          /\ \A i \in DOMAIN results :
                results[i].inputPath \in {found[i], ClaimBackupPath(found[i])}

ClaimOptimizePcs == {"read", "codec", "mkdir", "write", "writing"}

\* the call k of the chunk after a step: it stands in pipes', or, when the step made
\* processAll start the next chunk, its result is the one pushed for it
ClaimCallAfter(k) ==
    IF idx' = idx THEN pipes'[k]
    ELSE [pc |-> "returned", result |-> results'[idx + k]]

ClaimFailureRecordOk(r) ==
    /\ r.error.t = "string" /\ r.error.v # ""
    /\ r.outputPath = Undef
    /\ r.originalSize = [width |-> 0, height |-> 0, bytes |-> 0]
    /\ r.optimizedSize = [width |-> 0, height |-> 0, bytes |-> 0]
    /\ r.reductionPercent.num = 0

\* C6, one step of optimize: the call moves on or returns, it never throws; a failed
\* result is zeroed and carries a message; a successful one is returned by the step
\* that finished writing the destination
C6_OptimizeStep ==
    \A k \in DOMAIN pipes :
        (pipes[k].pc \in ClaimOptimizePcs /\ (idx' # idx \/ pipes'[k] # pipes[k])) =>
            LET after == ClaimCallAfter(k)
            IN /\ after.pc \in ClaimOptimizePcs \cup {"returned"}
               /\ after.pc = "returned" =>
                     IF after.result.success
                     THEN /\ pipes[k].pc = "writing"
                          /\ files'[pipes[k].outputPath] = pipes[k].codec.outputBuffer
                          /\ after.result.error = Undef
                     ELSE /\ ClaimFailureRecordOk(after.result)
                          /\ (pipes[k].pc = "writing" => files'[pipes[k].outputPath] = Partial)

\* C6: optimize never throws, and every result it returns is either a zeroed failure
\* with a message and no outputPath, or a success whose destination has been written
C6_OptimizeNeverThrows ==
    /\ [][C6_OptimizeStep]_vars
    /\ [](\A i \in DOMAIN results : ~results[i].success => ClaimFailureRecordOk(results[i]))

\* optimize has failed after the image was decoded and compressed
C6_Witness ==
    \E k \in DOMAIN pipes :
        /\ pipes[k].pc = "returned"
        /\ ~pipes[k].result.success
        /\ pipes[k].codec # Undef
        /\ pipes[k].codec.originalSize.bytes > 0

\* the document is missing, is not JSON, or is not what the schema accepts
ClaimConfigInvalid(doc) == ~AcceptedAsAmended(doc)

\* C7: with an invalid config document processAll rejects once the load settles, before
\* discovery: nothing is found, no call is started, no result exists and no file or
\* directory differs from what the run began with
C7_ConfigErrorBeforeSideEffects ==
    (phase \notin {"idle", "load"} /\ ClaimConfigInvalid(configDoc)) =>
        /\ phase = "rejected"
        /\ rejection # Undef
        /\ found = <<>>
        /\ pipes = <<>>
        /\ results = <<>>
        /\ files = startFiles
        /\ dirs = startDirs

\* a run over a tree that already holds a backup was given a document with quality 150
C7_Witness ==
    /\ phase = "rejected"
    /\ configDoc.file = "json"
    /\ ClaimConfigInvalid(configDoc)
    /\ ClaimBackupPath(HeroPng) \in DOMAIN files
    /\ runs = 2

(***************************************************************************)
(* Claims about hasCustomSettings                                          *)
(***************************************************************************)
\* the entries of the document
ClaimEntries(doc) == doc.value.v["textures"].v

\* C11 as stated: hasCustomSettings is true exactly when some entry of the document
\* has the path's stem as its name, up to case, and useDefault false
C11_CustomIffSomeEntry ==
    cfgPc = "asked" =>
        customOut = Bool(\E n \in RefMatches(configDoc, texturePath) :
                            ~ClaimEntries(configDoc)[n].v["useDefault"].v)

\* C11: hasCustomSettings is true exactly when the last entry of the document that has
\* the path's stem as its name, up to case, has useDefault false, whether or not that
\* entry sets maxSize or quality
C11_CustomIffLastEntry ==
    cfgPc = "asked" =>
        customOut = Bool(\E n \in RefMatches(configDoc, texturePath) :
                            /\ \A m \in RefMatches(configDoc, texturePath) : m <= n
                            /\ ~ClaimEntries(configDoc)[n].v["useDefault"].v)

\* hasCustomSettings has answered true for an entry that sets no field
C11_Witness ==
    /\ cfgPc = "asked"
    /\ customOut = Bool(TRUE)
    /\ \E n \in RefMatches(configDoc, texturePath) :
          /\ \A m \in RefMatches(configDoc, texturePath) : m <= n
          /\ DOMAIN ClaimEntries(configDoc)[n].v = {"name", "useDefault"}

(***************************************************************************)
(* Claims about the planner                                                *)
(***************************************************************************)
ClaimPowersOfTwo == {1, 2, 4, 8, 16, 32, 64, 128, 256, 512, 1024, 2048, 4096}

\* the power-of-2 branch of the planner was taken
ClaimPlannedPow2 ==
    /\ planOut # Undef
    /\ "powerOf2" \in DOMAIN planIn.settings
    /\ planIn.settings.powerOf2 = Bool(TRUE)

ClaimMaxSize == planIn.settings.maxSize.v \div 10

\* C12: each dimension the power-of-2 planner returns is a power of two, at most maxSize,
\* and at least 64 or, when maxSize is below 64, at least maxSize
C12_PlannerBounds ==
    ClaimPlannedPow2 =>
        \A d \in {planOut.width, planOut.height} :
            /\ d \in ClaimPowersOfTwo
            /\ d <= ClaimMaxSize
            /\ d >= (IF ClaimMaxSize < 64 THEN ClaimMaxSize ELSE 64)

\* C13 as stated: the planned width and height never exceed the original's
C13_PlanNeverExceedsOriginal ==
    planOut # Undef =>
        /\ planOut.width <= planIn.width
        /\ planOut.height <= planIn.height

\* the original's side, the planned side and the resized side, for width and for height
ClaimSides ==
    { [original |-> planIn.width, planned |-> planOut.width,
       resized |-> IF resizeOut = Undef THEN 0 ELSE resizeOut.width],
      [original |-> planIn.height, planned |-> planOut.height,
       resized |-> IF resizeOut = Undef THEN 0 ELSE resizeOut.height] }

\* C13: a planned side exceeds the original's only when the power-of-2 planner lifts an
\* original side below 64 to its floor of 64; the resize never enlarges, so no side of
\* the resized image exceeds the original's
C13_NeverUpscales ==
    planOut # Undef =>
        \A side \in ClaimSides :
            /\ side.planned > side.original =>
                  ClaimPlannedPow2 /\ side.original < 64 /\ side.planned = 64
            /\ side.resized <= side.original

\* an original 30 pixels wide was planned at 64 and came out of the resize 30 wide
C13_Witness ==
    /\ resizeOut # Undef
    /\ ClaimPlannedPow2
    /\ planIn.width = 30
    /\ planOut.width = 64
    /\ resizeOut.width = 30

\* C14: the ratio of the planned width to the planned height is within a factor of 2 of
\* the original's ratio
C14_AspectWithinOneStep ==
    ClaimPlannedPow2 =>
        /\ planOut.width * planIn.height <= 2 * planIn.width * planOut.height
        /\ planIn.width * planOut.height <= 2 * planOut.width * planIn.height

(***************************************************************************)
(* Claims about what a batch run computes                                  *)
(***************************************************************************)
\* C15: the target dimensions computed for every file of a batch run are powers of two
C15_BatchTargetsArePowersOfTwo ==
    \A k \in DOMAIN pipes :
        pipes[k].codec # Undef =>
            /\ pipes[k].codec.targetDims.width \in ClaimPowersOfTwo
            /\ pipes[k].codec.targetDims.height \in ClaimPowersOfTwo

\* the format that belongs to a file name: its extension, jpeg read as jpg
ClaimFormatOf(name) ==
    CASE name = "Hero.png" -> <<"p", "n", "g">>
      [] name = "bg.jpeg" -> <<"j", "p", "g">>
      [] name = "icon.png" -> <<"p", "n", "g">>

ClaimLastEncode(content) == content.encodes[Len(content.encodes)]

\* the document in use sets format, powerOf2 and maintainAspectRatio
ClaimConfigSetsFormat ==
    /\ configDoc.file = "json"
    /\ "format" \in DOMAIN configDoc.value.v["defaultSettings"].v

\* C16: for every file of a batch run the format in the optimizer's settings and the
\* format of the encode are those of the file's extension, and the destination has the
\* input's file name, whatever the config document holds
C16_FormatPreserved ==
    \A k \in DOMAIN pipes :
        LET call == pipes[k]
            name == call.inputPath[Len(call.inputPath)]
        IN /\ call.settings.format = ClaimFormatOf(name)
           /\ call.outputPath # <<>> => call.outputPath[Len(call.outputPath)] = name
           /\ call.codec # Undef =>
                 ClaimLastEncode(call.codec.outputBuffer).format = ClaimFormatOf(name)
           /\ (call.pc = "returned" /\ call.result.success) =>
                 /\ call.result.outputPath = Str(call.outputPath)
                 /\ ClaimLastEncode(files[call.outputPath]).format = ClaimFormatOf(name)

\* bg.jpeg has been written as a jpg under a document that asks for webp
C16_Witness ==
    /\ ClaimConfigSetsFormat
    /\ \E k \in DOMAIN pipes :
          /\ pipes[k].inputPath = BgJpeg
          /\ pipes[k].pc = "returned"
          /\ pipes[k].result.success
          /\ ClaimLastEncode(files[pipes[k].outputPath]).format = <<"j", "p", "g">>

\* a live file holds the output of an earlier run
ClaimOptimizedBefore(p) ==
    /\ p \in lastOptimized
    /\ p \in DOMAIN startFiles
    /\ startFiles[p].k = "image"
    /\ startFiles[p].encodes # <<>>

ClaimLivePath(bp) == SubSeq(bp, 1, Len(bp) - 2) \o <<bp[Len(bp)]>>

\* the backups the run began with whose live file was missing
ClaimBackupOnly ==
    {bp \in DOMAIN startFiles :
        /\ Len(bp) >= 2
        /\ bp[Len(bp) - 1] = "_originalTexture"
        /\ ClaimLivePath(bp) \notin DOMAIN startFiles}

\* C18: an in-place run that has returned has written, for every backup whose live file
\* was missing, an optimized file at the live path, and has left the backup as it was
C18_BackupOnlyProcessed ==
    (ClaimInPlace /\ phase = "resolved" /\ faults = 0) =>
        \A bp \in ClaimBackupOnly :
            /\ ClaimLivePath(bp) \in DOMAIN files
            /\ files[bp] = startFiles[bp]

(***************************************************************************)
(* Claims about processAll's loop                                          *)
(***************************************************************************)
\* results holds one result for every discovered file, in discovery order
ClaimOneResultPerFile ==
    /\ Len(results) = Len(found)
    /\ \A i \in DOMAIN results :
          results[i].inputPath \in {found[i], ClaimBackupPath(found[i])}

\* C19: once the config document has loaded, processAll eventually returns, with one
\* result for every discovered file, in discovery order
C19_EventuallyReturnsAll ==
    (phase = "glob") ~> (phase = "resolved" /\ ClaimOneResultPerFile)

\* the calls of processTexture that have neither returned nor thrown
ClaimInFlight == {k \in DOMAIN pipes : pipes[k].pc \notin {"returned", "threw"}}

\* every file of the chunks before the current one has its result in the list
ClaimEarlierChunksDone ==
    /\ Len(results) >= idx
    /\ \A i \in 1..idx : results[i].inputPath \in {found[i], ClaimBackupPath(found[i])}

ClaimBatched ==
    phase \in {"chunk", "resolved", "rejected"} =>
        /\ Cardinality(ClaimInFlight) <= options.concurrency.v \div 10
        /\ \A k \in DOMAIN pipes : pipes[k].inputPath = found[idx + k]
        /\ ClaimEarlierChunksDone

ClaimInsideBackupDir(path) == \E n \in 1..(Len(path) - 1) : path[n] = BackupDir

\* C21: whatever options the processor was constructed with, findTextures returns no
\* path that lies inside an _originalTexture directory
C21_BackupDirNeverDiscovered ==
    \A i \in DOMAIN found : ~ClaimInsideBackupDir(found[i])

\* the caller supplied an output root
ClaimOutputRoot == options # Undef /\ Truthy(SettingsGet(options, "outputDir"))

\* the call is handled the in-place way: a backup path is set and the destination is the
\* live file itself
ClaimHandledInPlace(call) == call.backupPath # NoPath /\ call.outputPath = call.inputPath

\* C22: a constructed processor is in in-place mode exactly when no output root was
\* supplied, and every file of its run is handled in that mode: in place when there is
\* no output root, towards the output root when there is one
C22_ModeFollowsOutputRoot ==
    options # Undef =>
        /\ options.inPlaceMode <=> ~ClaimOutputRoot
        /\ \A k \in DOMAIN pipes : ClaimHandledInPlace(pipes[k]) <=> ~ClaimOutputRoot

(***************************************************************************)
(* Claims about a killed process                                           *)
(***************************************************************************)
\* content is an image no encoder has touched
ClaimPristine(content) == content.k = "image" /\ content.encodes = <<>>

\* the pristine original of p is still on disk, as the live file or as its backup
ClaimOriginalKept(p) ==
    \/ p \in DOMAIN files /\ ClaimPristine(files[p])
    \/ ClaimBackupPath(p) \in DOMAIN files /\ ClaimPristine(files[ClaimBackupPath(p)])

\* the original of p was an image to begin with
ClaimOriginalDecodes(p) ==
    Corrupt \notin {files[q] : q \in {p, ClaimBackupPath(p)} \cap DOMAIN files}

\* the live file p holds one encoding of the pristine image its backup holds
ClaimRecovered(p) ==
    /\ ClaimBackupPath(p) \in DOMAIN files
    /\ ClaimPristine(files[ClaimBackupPath(p)])
    /\ p \in DOMAIN files
    /\ files[p].k = "image"
    /\ files[p].id = files[ClaimBackupPath(p)].id
    /\ Len(files[p].encodes) = 1

\* the pristine original of every live file that was an image is still on disk
ClaimOriginalsKept ==
    \A p \in {HeroPng, BgJpeg} : ClaimOriginalDecodes(p) => ClaimOriginalKept(p)

\* C23: in in-place runs of a process that may be killed at any await of a file's
\* backup-then-optimize sequence, the pristine original of every live file stays on
\* disk, as the backup or as the live file; and a run that follows a kill and resolves
\* without an I/O fault leaves every file it discovered with a pristine backup and a
\* live file that is the optimization of it
C23_CrashRecovery ==
    /\ ClaimOriginalsKept
    /\ (kills > 0 /\ faults = 0 /\ phase = "resolved") =>
            \A i \in DOMAIN found : ClaimOriginalDecodes(found[i]) => ClaimRecovered(found[i])

(***************************************************************************)
(* Claims about output-directory runs                                      *)
(***************************************************************************)
\* the output root joined with the path of p relative to the base path
ClaimMirrored(opts, p) == opts.outputDir.v \o SubSeq(p, Len(opts.basePath) + 1, Len(p))

\* the fs.access of call k settles in this step
ClaimAccessSettles(k) ==
    /\ k \in DOMAIN pipes /\ pipes[k].pc = "access"
    /\ k \in DOMAIN pipes' /\ pipes'[k].pc # "access"
    /\ pipes'[k].inputPath = pipes[k].inputPath

C25_ResizePreservesAspect ==
    \A k \in DOMAIN pipes :
        pipes[k].codec # Undef =>
            /\ pipes[k].codec.resize.fit = "inside"
            /\ pipes[k].codec.resize.withoutEnlargement

(***************************************************************************)
(* Claims about the calls of a chunk                                       *)
(***************************************************************************)
\* C26: once the promise of processAll has resolved or rejected, no call of
\* processTexture of that run is still pending, and no later step of that run changes a
\* file or creates a directory
C26_NoWorkAfterSettling ==
    [][(phase \in {"resolved", "rejected"} /\ runs' = runs) =>
          /\ \A k \in DOMAIN pipes : Settled(pipes[k])
          /\ files' = files
          /\ dirs' = dirs]_vars

\* the call processTexture makes for the i-th discovered file, as it starts
ClaimCallFor(i) == ProcessTextureStart(options, configManager, found[i])

\* the paths that call writes: its destination and, in place, its backup
ClaimWrites(call) ==
    {call.outputPath} \cup (IF call.backupPath # NoPath THEN {call.backupPath} ELSE {})

\* the paths that call may read: the live file and the backup it checks for
ClaimReads(call) == {call.inputPath, call.accessPath}

\* C27: within a run, no discovered file's destination or backup path is the destination,
\* the backup path or a source path of another discovered file
C27_NoWriteConflicts ==
    (phase \in {"chunk", "resolved"} /\ configManager # Undef) =>
        \A i \in DOMAIN found : \A j \in DOMAIN found \ {i} :
            ClaimWrites(ClaimCallFor(i))
                \cap (ClaimWrites(ClaimCallFor(j)) \cup ClaimReads(ClaimCallFor(j))) = {}

\* call k fails in this step at its read or in the codec
ClaimFailsEarly(k) == pipes[k].pc \in {"read", "codec"} /\ ClaimCallAfter(k).pc = "returned"

\* path holds in fs what it held in old, or is absent from both
ClaimSameAt(fs, old, path) ==
    IF path \in DOMAIN old THEN path \in DOMAIN fs /\ fs[path] = old[path]
    ELSE path \notin DOMAIN fs

\* C28: a step in which a call fails at its read or in the codec changes no file and
\* creates no directory; as long as a call has no compressed output its destination
\* holds what it held when the run started; and a directory is created only by
\* backupOriginal or by a call of optimize that has its compressed output
C28_WriteLast ==
    [][/\ \A k \in DOMAIN pipes :
             ClaimFailsEarly(k) =>
                 /\ ~ClaimCallAfter(k).result.success
                 /\ files' = files
                 /\ dirs' = dirs
       /\ \A k \in DOMAIN pipes' :
             pipes'[k].codec = Undef =>
                 ClaimSameAt(files', startFiles', pipes'[k].outputPath)
       /\ dirs' # dirs =>
             \E k \in DOMAIN pipes :
                \/ pipes[k].pc = "backupMkdir"
                \/ pipes[k].pc = "mkdir" /\ pipes[k].codec # Undef]_vars

\* in an in-place run the codec has failed on bg.jpeg, whose live file is as it was,
\* while the other call of the chunk has written its destination
C28_Witness ==
    /\ ClaimInPlace
    /\ \E k \in DOMAIN pipes :
          /\ pipes[k].inputPath = BgJpeg
          /\ pipes[k].pc = "returned"
          /\ ~pipes[k].result.success
          /\ pipes[k].originalBuffer # Undef
          /\ pipes[k].codec = Undef
          /\ files[BgJpeg] = startFiles[BgJpeg]
    /\ \E k \in DOMAIN pipes :
          /\ pipes[k].inputPath = HeroPng
          /\ pipes[k].pc = "returned"
          /\ pipes[k].result.success

\* C29: the dimensions optimize reports as optimizedSize, which are the planned ones,
\* are the dimensions of the image the resize produced
C29_ReportedDimensionsAreReal ==
    resizeOut # Undef =>
        /\ planOut.width = resizeOut.width
        /\ planOut.height = resizeOut.height

(***************************************************************************)
(* Claims about the concurrency option                                     *)
(***************************************************************************)
\* C30: whatever concurrency the processor was constructed with, every pass of the loop
\* of processAll handles at least one file at a counter that is not negative, so that
\* the loop ends, and when processAll returns it returns one result per discovered
\* file, in order
C30_AnyConcurrencyReturnsAll ==
    /\ phase = "chunk" => (pipes # <<>> /\ idx >= 0)
    /\ phase = "resolved" =>
          /\ Len(results) = Len(found)
          /\ \A i \in DOMAIN results :
                results[i].inputPath \in {found[i], ClaimBackupPath(found[i])}

====
